---------------------------- MODULE Spec2Model ----------------------------
(***************************************************************************)
(* A model of the offline password vault: the encryption service           *)
(* (lib/encryption), the storage service (lib/storage), the authentication *)
(* context, the vault screen and the password generator.                   *)
(*                                                                         *)
(* Cryptography is modelled symbolically.  PBKDF2 is an injective term     *)
(* constructor, AES under a passphrase is a term that remembers the key    *)
(* and the plaintext, and the random source hands out values that have     *)
(* never been handed out before.  Decrypting under another key goes        *)
(* through CryptoJS's unchecked PKCS7 unpadding and its UTF-8 decoder, so  *)
(* it is a choice among the outcomes those two steps can produce.          *)
(***************************************************************************)
EXTENDS Integers, Sequences, FiniteSets, TLC

(***************************************************************************)
(* Bounds of the model.                                                    *)
(***************************************************************************)
MaxDraws == 12
MaxEntries == 2
MaxClock == 3
MaxCalls == 3
MaxLength == 3
MaxCount == 2
MaxStrLen == 24
MaxShuffleLen == 4
MaxPending == 2

(***************************************************************************)
(* Text.  A string that the program serialises is a sequence of tokens: a  *)
(* quoted string literal or a bare piece of text.                          *)
(***************************************************************************)
Str(s) == [q |-> TRUE, s |-> s]
Raw(s) == [q |-> FALSE, s |-> s]

EmptyText == << >>
SENTINEL == << Raw("MASTER_PASSWORD_VALIDATION") >>
GarbledText == << Raw("?garbled?") >>
DigitText == << Raw("7") >>

Ok(v) == [k |-> "ok", v |-> v]
Throw(m) == [k |-> "throw", err |-> m]

(***************************************************************************)
(* Master passwords the user may type.  The first is shorter than the      *)
(* eight characters the setup form asks for; the third is the second       *)
(* followed by a NUL character, written \0 here; the last is another       *)
(* password the setup form takes.                                          *)
(***************************************************************************)
Passwords ==
    { "wrong", "correct-horse-battery", "correct-horse-battery\\0",
      "tr0ub4dor-and-3" }
NoPassword == "<undefined>"

(***************************************************************************)
(* The random source: CryptoJS.lib.WordArray.random and crypto.randomUUID. *)
(* The n-th draw of a run is the value n; a draw is never repeated.        *)
(***************************************************************************)
Salt(n) == "salt" \o ToString(n)
IV(n) == "iv" \o ToString(n)
Uuid(n) == "uuid" \o ToString(n)
Undefined == "<undefined>"

(***************************************************************************)
(* lib/encryption                                                          *)
(***************************************************************************)
\* The key HMAC makes of a password: PBKDF2 hands the password to HMAC as
\* its key, and HMAC pads a key with zero bytes up to its block size, so
\* NUL characters at the end of a password do not change the key.
HmacKey(password) ==
    IF password = "correct-horse-battery\\0" THEN "correct-horse-battery"
    ELSE password

\* CryptoJS.PBKDF2(masterPassword, salt, ...): a different HMAC key or a
\* different salt gives a different key.
deriveKey(masterPassword, salt) ==
    [pw |-> HmacKey(masterPassword), salt |-> salt]

\* generateSalt as it would be with a salt fixed in the code.
generateSaltConstant(n) == Salt(0)

generateSalt(n) == Salt(n)

generateIV(n) == IV(n)

\* The number of bytes generateIV asks the random source for.
IVBytes == 96 \div 8

\* The block size of AES in bytes, the IV length of the CBC mode that
\* encryptData and decryptData name.
AESBlockBytes == 16

\* The number of bytes CryptoJS.enc.Hex.parse yields for an envelope's iv:
\* a generated iv is 2 * IVBytes hex digits.
HexParseBytes(iv) ==
    IF iv \in { generateIV(n) : n \in 0..MaxDraws } THEN IVBytes ELSE 0

\* CryptoJS.AES.encrypt(data, key, cfg) with a string key: the passphrase
\* form, which derives the cipher's own key and IV and ignores cfg.iv.
AESencrypt(data, key) == [key |-> key, pt |-> data]

\* A ciphertext string that is no output of AESencrypt, and the data field
\* of an envelope that has none.
MalformedCipher == [key |-> deriveKey(Undefined, Undefined), pt |-> EmptyText]
UndefinedCipher ==
    [key |-> deriveKey(Undefined, Undefined), pt |-> << Raw(Undefined) >>]

\* encryptData as it would be if the password were used as its own salt.
encryptDataSaltIsPassword(data, masterPassword, n) ==
    [data |-> AESencrypt(data, deriveKey(masterPassword, masterPassword)),
     iv |-> generateIV(n + 1), salt |-> masterPassword]

encryptData(data, masterPassword, n) ==
    LET salt == generateSalt(n)
        iv == generateIV(n + 1)
        key == deriveKey(masterPassword, salt)
    IN  [data |-> AESencrypt(data, key), iv |-> iv, salt |-> salt]

\* The value JSON.parse gives for the text "null".
NullEnvelope == [null |-> TRUE]

\* What CBC decryption under another key, unpadding without a check and
\* the UTF-8 decoder can give: an exception, the empty string, text that
\* is not JSON, text that is JSON.
WrongKeyOutcomes ==
    { Throw("Malformed UTF-8 data"), Ok(EmptyText), Ok(GarbledText),
      Ok(DigitText) }

\* decryptData as it would be if the key were derived from the iv field.
decryptDataKeyFromIv(encryptedData, masterPassword) ==
    IF encryptedData = NullEnvelope
    THEN { Throw("TypeError") }
    ELSE IF \/ encryptedData.salt = Undefined
            \/ encryptedData.iv = Undefined
            \/ encryptedData.data = UndefinedCipher
         THEN { Throw("TypeError") }
         ELSE LET key == deriveKey(masterPassword, encryptedData.iv)
              IN  IF encryptedData.data # MalformedCipher
                     /\ encryptedData.data.key = key
                  THEN { Ok(encryptedData.data.pt) }
                  ELSE WrongKeyOutcomes

\* The set of outcomes of decryptData(encryptedData, masterPassword).  A
\* null envelope and a missing salt, iv or data field are TypeErrors; the
\* iv that is present is parsed and then replaced by the passphrase
\* cipher's own.
decryptData(encryptedData, masterPassword) ==
    IF encryptedData = NullEnvelope
    THEN { Throw("TypeError") }
    ELSE IF \/ encryptedData.salt = Undefined
            \/ encryptedData.iv = Undefined
            \/ encryptedData.data = UndefinedCipher
         THEN { Throw("TypeError") }
         ELSE LET key == deriveKey(masterPassword, encryptedData.salt)
              IN  IF encryptedData.data # MalformedCipher
                     /\ encryptedData.data.key = key
                  THEN { Ok(encryptedData.data.pt) }
                  ELSE WrongKeyOutcomes

\* validateMasterPassword as it would be without the comparison with the
\* sentinel, and as it would be without the try/catch.
validateOutcomeAnyText(d) == IF d.k = "throw" THEN Ok(FALSE) ELSE Ok(TRUE)
validateOutcomeRethrow(d) == IF d.k = "throw" THEN d ELSE Ok(d.v = SENTINEL)

\* The outcome of validateMasterPassword for one outcome of decryptData.
validateOutcome(d) ==
    IF d.k = "throw" THEN Ok(FALSE) ELSE Ok(d.v = SENTINEL)

\* The runs of validateMasterPassword(password, testData): what decryptData
\* gave and what the function returned.
validateRuns(password, testData) ==
    { [dec |-> d, out |-> validateOutcome(d)] :
        d \in decryptData(testData, password) }

\* The set of outcomes of validateMasterPassword(password, testData).
validateMasterPassword(password, testData) ==
    { r.out : r \in validateRuns(password, testData) }

createValidationData(masterPassword, n) ==
    encryptData(SENTINEL, masterPassword, n)


(***************************************************************************)
(* JSON.  JSON.stringify of a vault writes the tokens of the object, and   *)
(* JSON.parse reads them back by recursive descent; text that is not the   *)
(* serialisation of a value is a SyntaxError.                              *)
(***************************************************************************)
EntryKeys ==
    << "id", "title", "website", "username", "password", "notes",
       "createdAt", "updatedAt" >>

EntryValues(e) ==
    << e.id, e.title, e.website, e.username, e.password, e.notes,
       e.createdAt, e.updatedAt >>

StringifyStrings(ss) == [i \in 1..Len(ss) |-> Str(ss[i])]

StringifyEntry(e) ==
    << Raw("{") >>
    \o [i \in 1..(2 * Len(EntryKeys)) |->
           IF i % 2 = 1 THEN Str(EntryKeys[(i + 1) \div 2])
                        ELSE Str(EntryValues(e)[i \div 2])]
    \o << Str("tags"), Raw("[") >> \o StringifyStrings(e.tags)
    \o << Raw("]"), Raw("}") >>

RECURSIVE StringifyEntries(_)
StringifyEntries(es) ==
    IF es = << >> THEN << >>
    ELSE StringifyEntry(Head(es)) \o StringifyEntries(Tail(es))

\* JSON.stringify(vaultData) for a VaultData object.
JSONstringify(vaultData) ==
    << Raw("{"), Str("entries"), Raw("[") >>
    \o StringifyEntries(vaultData.entries)
    \o << Raw("]"), Str("version"), Str(vaultData.version), Raw("}") >>

At(t, i) == IF i \in 1..Len(t) THEN t[i] ELSE Raw("<eof>")

ParseFail == [ok |-> FALSE, next |-> 0]

RECURSIVE ParseStrings(_, _, _)
ParseStrings(t, i, acc) ==
    IF At(t, i) = Raw("]") THEN [ok |-> TRUE, val |-> acc, next |-> i + 1]
    ELSE IF At(t, i).q THEN ParseStrings(t, i + 1, Append(acc, t[i].s))
    ELSE ParseFail

ParseEntry(t, i) ==
    LET n == Len(EntryKeys)
        keysOk ==
            \A j \in 1..n :
                /\ At(t, i + 2 * j - 1) = Str(EntryKeys[j])
                /\ At(t, i + 2 * j).q
        val(j) == t[i + 2 * j].s
        tags == ParseStrings(t, i + 2 * n + 3, << >>)
    IN  IF /\ At(t, i) = Raw("{")
           /\ keysOk
           /\ At(t, i + 2 * n + 1) = Str("tags")
           /\ At(t, i + 2 * n + 2) = Raw("[")
           /\ tags.ok
           /\ At(t, tags.next) = Raw("}")
        THEN [ok |-> TRUE,
              val |-> [id |-> val(1), title |-> val(2), website |-> val(3),
                       username |-> val(4), password |-> val(5),
                       notes |-> val(6), createdAt |-> val(7),
                       updatedAt |-> val(8), tags |-> tags.val],
              next |-> tags.next + 1]
        ELSE ParseFail

RECURSIVE ParseEntries(_, _, _)
ParseEntries(t, i, acc) ==
    IF At(t, i) = Raw("]") THEN [ok |-> TRUE, val |-> acc, next |-> i + 1]
    ELSE LET e == ParseEntry(t, i)
         IN  IF e.ok THEN ParseEntries(t, e.next, Append(acc, e.val))
             ELSE ParseFail

\* The value JSON.parse gives for the text "7".
SevenValue == [num |-> 7]

\* The outcome of JSON.parse(text) for a decrypted text.
JSONparse(text) ==
    IF text = DigitText THEN Ok(SevenValue)
    ELSE IF /\ At(text, 1) = Raw("{")
            /\ At(text, 2) = Str("entries")
            /\ At(text, 3) = Raw("[")
         THEN LET es == ParseEntries(text, 4, << >>)
              IN  IF /\ es.ok
                     /\ At(text, es.next) = Str("version")
                     /\ At(text, es.next + 1).q
                     /\ At(text, es.next + 2) = Raw("}")
                     /\ Len(text) = es.next + 2
                  THEN Ok([entries |-> es.val,
                           version |-> text[es.next + 1].s])
                  ELSE Throw("SyntaxError")
         ELSE Throw("SyntaxError")

(***************************************************************************)
(* The key-value store (Capacitor Preferences) holds strings.  A stored    *)
(* string is the JSON text of an envelope, a preference scalar, or text    *)
(* that is not JSON; a key may be absent.                                  *)
(***************************************************************************)
VAULT_DATA == "secure_vault_data"
MASTER_PASSWORD_VALIDATION == "master_password_validation"
BIOMETRIC_ENABLED == "biometric_enabled"
AUTO_LOCK_TIMEOUT == "auto_lock_timeout"
STORAGE_KEYS ==
    { VAULT_DATA, MASTER_PASSWORD_VALIDATION, BIOMETRIC_ENABLED,
      AUTO_LOCK_TIMEOUT }

Absent == [k |-> "absent"]
EnvelopeJSON(e) == [k |-> "json", v |-> e]
Scalar(s) == [k |-> "scalar", v |-> s]
MalformedJSON == [k |-> "malformed"]

\* JSON.parse of a stored string that is expected to hold an envelope.
ParseStored(value) ==
    IF value.k = "json" THEN Ok(value.v) ELSE Throw("SyntaxError")

EmptyStore == [key \in STORAGE_KEYS |-> Absent]

\* What a read finds: the stored strings, or for every key a rejection of
\* Preferences.get, which the readers catch together with a failing
\* JSON.parse.
Rejected == [k |-> "rejected"]
Seen(st, readOk) ==
    IF readOk THEN st ELSE [key \in STORAGE_KEYS |-> Rejected]

DecryptError ==
    "Failed to decrypt password vault. Please check your master password."

\* The set of outcomes of getVaultData(masterPassword) on a store.
getVaultData(st, masterPassword) ==
    LET value == st[VAULT_DATA]
    IN  IF value = Absent THEN { Ok(NullEnvelope) }
        ELSE LET parsed == ParseStored(value)
             IN  IF parsed.k = "throw" THEN { Throw(DecryptError) }
                 ELSE { IF d.k = "throw" THEN Throw(DecryptError)
                        ELSE IF JSONparse(d.v).k = "throw"
                             THEN Throw(DecryptError)
                             ELSE JSONparse(d.v)
                        : d \in decryptData(parsed.v, masterPassword) }

\* storeVaultData as it would be if it wrote under the validation key.
storeVaultDataUnderValidationKey(st, vaultData, masterPassword, n) ==
    [st EXCEPT ![MASTER_PASSWORD_VALIDATION] =
        EnvelopeJSON(encryptData(JSONstringify(vaultData), masterPassword, n))]

\* The store after storeVaultData(vaultData, masterPassword) succeeded.
storeVaultData(st, vaultData, masterPassword, n) ==
    [st EXCEPT ![VAULT_DATA] =
        EnvelopeJSON(encryptData(JSONstringify(vaultData), masterPassword, n))]

\* The store after storeMasterPasswordValidation(validationData) succeeded.
storeMasterPasswordValidation(st, validationData) ==
    [st EXCEPT ![MASTER_PASSWORD_VALIDATION] = EnvelopeJSON(validationData)]

\* The outcome of getMasterPasswordValidation() on a store: an envelope, or
\* null when the key is absent or its value does not parse.
getMasterPasswordValidation(st) ==
    LET value == st[MASTER_PASSWORD_VALIDATION]
    IN  IF value = Absent THEN NullEnvelope
        ELSE IF ParseStored(value).k = "throw" THEN NullEnvelope
        ELSE ParseStored(value).v

vaultExists(st) == getMasterPasswordValidation(st) # NullEnvelope


(***************************************************************************)
(* The state.                                                              *)
(***************************************************************************)
VARIABLES
    store,            \* Capacitor Preferences: key -> stored string
    draws,            \* number of values the random source has handed out
    clock,            \* number of timestamps handed out by new Date()
    isAuthenticated,  \* AuthProvider state
    isLoading,        \* AuthProvider state
    hasVault,         \* AuthProvider state
    masterPassword,   \* window.__masterPassword
    vaultData,        \* PasswordVault state
    pvLoading,        \* PasswordVault isLoading state
    validatedOK,      \* history: passwords validated since the last logout
    lastDecrypt,      \* history: the last decryption attempt on the vault
    toasts,           \* the titles of the toasts the last handler issued
    lastSaved,        \* history: the vault last loaded or saved by the screen
    calls,            \* number of library calls made
    sealed,           \* history: the last vault stored and its password
    created,          \* history: the last validation data and its password
    produced,         \* history: every envelope produced, in order
    ret,              \* history: the last library call and what it returned
    genOptions,       \* PasswordGenerator options state
    genResult,        \* the outcome of the last generatePassword call
    strengthInput,    \* the string handed to estimatePasswordStrength
    strengthResult,   \* what estimatePasswordStrength returned for it
    shuffleInput,     \* the string handed to shuffleString
    shuffleResult,    \* what shuffleString returned and the swaps it made
    pending,          \* saves whose storeVaultData has not yet resolved
    saved             \* history: the mutations whose save has succeeded

appVars ==
    << clock, isAuthenticated, isLoading, hasVault, masterPassword,
       vaultData, pvLoading, validatedOK, lastDecrypt, toasts, lastSaved >>
apiVars == << calls, sealed, created, ret >>
genVars == << genOptions, genResult >>
strengthVars == << strengthInput, strengthResult >>
shuffleVars == << shuffleInput, shuffleResult >>
raceVars == << pending, saved >>
vars ==
    << store, draws, produced, appVars, apiVars, genVars, strengthVars,
       shuffleVars, raceVars >>

None == [k |-> "none"]

EmptyVault == [entries |-> << >>, version |-> "1.0.0"]

\* What the add/edit dialog hands to handleSaveEntry.
EntryInputs ==
    { [title |-> "mail", website |-> "https://mail.example",
       username |-> "ann", password |-> "s3cret!", notes |-> "",
       tags |-> << >>],
      [title |-> "bank", website |-> "", username |-> "ann",
       password |-> "hunter2-hunter2", notes |-> "pin 0000",
       tags |-> << "money", "work" >>] }

Now(n) == "2025-01-01T00:00:0" \o ToString(n) \o "Z"

AppInit ==
    /\ clock = 0
    /\ isAuthenticated = FALSE
    /\ isLoading = TRUE
    /\ hasVault = FALSE
    /\ masterPassword = NoPassword
    /\ vaultData = EmptyVault
    /\ pvLoading = FALSE
    /\ validatedOK = {}
    /\ lastDecrypt = None
    /\ toasts = << >>
    /\ lastSaved = None

ApiInit ==
    /\ calls = 0
    /\ sealed = None
    /\ created = None
    /\ ret = None

\* DEFAULT_PASSWORD_OPTIONS; a count is << >> when the field is absent.
DEFAULT_PASSWORD_OPTIONS ==
    [length |-> 16, includeUppercase |-> TRUE, includeLowercase |-> TRUE,
     includeNumbers |-> TRUE, includeSpecialChars |-> TRUE,
     numberCount |-> << 2 >>, specialCharCount |-> << 2 >>,
     excludeSimilar |-> TRUE, excludeAmbiguous |-> FALSE]

GenIdle ==
    /\ genOptions = DEFAULT_PASSWORD_OPTIONS
    /\ genResult = None

\* No string has been handed to estimatePasswordStrength.
StrengthIdle ==
    /\ strengthInput = << >>
    /\ strengthResult = None

\* No string has been handed to shuffleString.
ShuffleIdle ==
    /\ shuffleInput = << >>
    /\ shuffleResult = None

\* No save is in flight.
RaceIdle ==
    /\ pending = << >>
    /\ saved = {}

StoreInit ==
    /\ store = EmptyStore
    /\ draws = 0
    /\ produced = << >>

Init ==
    /\ StoreInit
    /\ AppInit
    /\ ApiInit
    /\ GenIdle
    /\ StrengthIdle
    /\ ShuffleIdle
    /\ RaceIdle

(***************************************************************************)
(* The application: Index shows the setup form while no vault exists, the  *)
(* login screen while the session is not authenticated, and the vault      *)
(* screen otherwise.                                                       *)
(***************************************************************************)
UnchangedOutsideApp ==
    UNCHANGED << apiVars, genVars, strengthVars, shuffleVars, raceVars >>

\* AuthProvider.checkAuth, run by the mount effect; readOk says whether
\* Preferences.get succeeds.
CheckAuth(readOk) ==
    /\ isLoading
    /\ hasVault' = vaultExists(Seen(store, readOk))
    /\ isLoading' = FALSE
    /\ toasts' = << >>
    /\ UNCHANGED << store, draws, produced, clock, isAuthenticated,
                    masterPassword, vaultData, pvLoading, validatedOK,
                    lastDecrypt, lastSaved >>
    /\ UnchangedOutsideApp

\* MasterPasswordSetup.handleSubmit.  ok1 and ok2 say whether the two
\* Preferences.set calls succeed; onSetupComplete is checkAuth, whose read
\* succeeds when readOk.
SetupSubmit(password, confirmPassword, ok1, ok2, readOk) ==
    /\ ~isLoading
    /\ ~hasVault
    /\ draws + 4 <= MaxDraws
    /\ IF password # confirmPassword
       THEN /\ toasts' = << "Password Mismatch" >>
            /\ UNCHANGED << store, draws, produced, hasVault >>
       ELSE IF Len(password) < 8
       THEN /\ toasts' = << "Password Too Short" >>
            /\ UNCHANGED << store, draws, produced, hasVault >>
       ELSE LET validationData == createValidationData(password, draws + 1)
                st1 == storeMasterPasswordValidation(store, validationData)
                vaultEnv ==
                    encryptData(JSONstringify(EmptyVault), password, draws + 3)
                st2 == storeVaultData(st1, EmptyVault, password, draws + 3)
            IN  IF ~ok1
                THEN /\ draws' = draws + 2
                     /\ produced' = Append(produced, validationData)
                     /\ toasts' = << "Setup Failed" >>
                     /\ UNCHANGED << store, hasVault >>
                ELSE /\ draws' = draws + 4
                     /\ produced' =
                            Append(Append(produced, validationData), vaultEnv)
                     /\ IF ~ok2
                        THEN /\ store' = st1
                             /\ toasts' = << "Setup Failed" >>
                             /\ UNCHANGED hasVault
                        ELSE /\ store' = st2
                             /\ toasts' = << "Setup Complete!" >>
                             /\ hasVault' = vaultExists(Seen(st2, readOk))
    /\ UNCHANGED << clock, isAuthenticated, isLoading, masterPassword,
                    vaultData, pvLoading, validatedOK, lastDecrypt,
                    lastSaved >>
    /\ UnchangedOutsideApp

\* login as it would be if the result of the check were not tested.
loginAcceptsAlways(isValid) == TRUE

\* The branch of login taken on the result of validateMasterPassword.
loginAccepts(isValid) == isValid

\* LoginScreen.handleSubmit as it would be if login put the password in
\* window.__masterPassword before it checked it.
LoginRemembersPassword(password, readOk) ==
    /\ ~isLoading
    /\ hasVault
    /\ ~isAuthenticated
    /\ masterPassword' = password
    /\ LET validationData == getMasterPasswordValidation(Seen(store, readOk))
       IN  IF validationData = NullEnvelope
           THEN /\ toasts' = << "Login Failed" >>
                /\ UNCHANGED << isAuthenticated, vaultData, pvLoading,
                                validatedOK, lastSaved >>
           ELSE \E out \in validateMasterPassword(password, validationData) :
                   /\ validatedOK' =
                          IF out.v THEN validatedOK \cup {password}
                          ELSE validatedOK
                   /\ IF loginAccepts(out.v)
                      THEN /\ isAuthenticated' = TRUE
                           /\ vaultData' = EmptyVault
                           /\ pvLoading' = TRUE
                           /\ lastSaved' = None
                           /\ toasts' = << >>
                      ELSE /\ toasts' = << "Login Failed" >>
                           /\ UNCHANGED << isAuthenticated, vaultData,
                                           pvLoading, lastSaved >>
    /\ UNCHANGED << store, draws, produced, clock, isLoading, hasVault,
                    lastDecrypt >>
    /\ UnchangedOutsideApp

\* LoginScreen.handleSubmit with AuthProvider.login; readOk says whether
\* Preferences.get succeeds.  The screen issues the toast Login Failed when
\* login returns false.  A successful login mounts the vault screen, whose
\* state starts from its defaults.
Login(password, readOk) ==
    /\ ~isLoading
    /\ hasVault
    /\ ~isAuthenticated
    /\ LET validationData == getMasterPasswordValidation(Seen(store, readOk))
       IN  IF validationData = NullEnvelope
           THEN /\ toasts' = << "Login Failed" >>
                /\ UNCHANGED << isAuthenticated, masterPassword, vaultData,
                                pvLoading, validatedOK, lastSaved >>
           ELSE \E out \in validateMasterPassword(password, validationData) :
                   /\ validatedOK' =
                          IF out.v THEN validatedOK \cup {password}
                          ELSE validatedOK
                   /\ IF loginAccepts(out.v)
                      THEN /\ isAuthenticated' = TRUE
                           /\ masterPassword' = password
                           /\ vaultData' = EmptyVault
                           /\ pvLoading' = TRUE
                           /\ lastSaved' = None
                           /\ toasts' = << >>
                      ELSE /\ toasts' = << "Login Failed" >>
                           /\ UNCHANGED << isAuthenticated, masterPassword,
                                           vaultData, pvLoading, lastSaved >>
    /\ UNCHANGED << store, draws, produced, clock, isLoading, hasVault,
                    lastDecrypt >>
    /\ UnchangedOutsideApp

\* logout as it would be without the delete of window.__masterPassword.
LogoutKeepsPassword ==
    /\ isAuthenticated
    /\ isAuthenticated' = FALSE
    /\ validatedOK' = {}
    /\ pvLoading' = FALSE
    /\ vaultData' = EmptyVault
    /\ toasts' = << >>
    /\ lastSaved' = None
    /\ UNCHANGED << store, draws, produced, clock, isLoading, hasVault,
                    lastDecrypt, masterPassword >>
    /\ UnchangedOutsideApp

\* AuthProvider.logout, as called by the vault screen's button.
Logout ==
    /\ isAuthenticated
    /\ isAuthenticated' = FALSE
    /\ masterPassword' = NoPassword
    /\ validatedOK' = {}
    /\ pvLoading' = FALSE
    /\ vaultData' = EmptyVault
    /\ toasts' = << >>
    /\ lastSaved' = None
    /\ UNCHANGED << store, draws, produced, clock, isLoading, hasVault,
                    lastDecrypt >>
    /\ UnchangedOutsideApp

\* PasswordVault.loadVaultData, run by the mount effect of the vault
\* screen; readOk says whether Preferences.get succeeds.
LoadVaultData(readOk) ==
    /\ isAuthenticated
    /\ pvLoading
    /\ IF masterPassword = NoPassword
       THEN /\ isAuthenticated' = FALSE
            /\ validatedOK' = {}
            /\ pvLoading' = FALSE
            /\ toasts' = << >>
            /\ UNCHANGED << vaultData, lastDecrypt, masterPassword,
                            lastSaved >>
       ELSE /\ \E out \in getVaultData(Seen(store, readOk), masterPassword) :
                  IF out.k = "ok"
                  THEN /\ vaultData' =
                              IF out.v # NullEnvelope THEN out.v
                              ELSE vaultData
                       /\ lastSaved' =
                              IF out.v # NullEnvelope THEN out.v
                              ELSE lastSaved
                       /\ toasts' = << >>
                  ELSE /\ toasts' = << "Load Error" >>
                       /\ UNCHANGED << vaultData, lastSaved >>
            /\ lastDecrypt' =
                   IF Seen(store, readOk)[VAULT_DATA] \in { Absent, Rejected }
                   THEN lastDecrypt
                   ELSE [pw |-> masterPassword,
                         validated |-> masterPassword \in validatedOK]
            /\ pvLoading' = FALSE
            /\ UNCHANGED << isAuthenticated, masterPassword, validatedOK >>
    /\ UNCHANGED << store, draws, produced, clock, isLoading, hasVault >>
    /\ UnchangedOutsideApp

\* saveVaultData as it would be if it set the vault state before the
\* store call was awaited.
saveKeepsOnFailure(newVaultData) == newVaultData

\* The vault state saveVaultData leaves when storeVaultData throws: the
\* catch only issues a toast.
vaultAfterFailedSave(newVaultData) == vaultData

\* PasswordVault.saveVaultData(newVaultData), with n draws and t timestamps
\* already taken by the caller; ok says whether Preferences.set succeeds.
\* The caller issues the toast title after the awaited call has returned.
SaveVaultData(newVaultData, n, t, ok, title) ==
    /\ clock' = clock + t
    /\ IF masterPassword = NoPassword
       THEN /\ isAuthenticated' = FALSE
            /\ validatedOK' = {}
            /\ pvLoading' = FALSE
            /\ draws' = draws + n
            /\ toasts' = << title >>
            /\ UNCHANGED << store, produced, vaultData, masterPassword,
                            lastSaved >>
       ELSE /\ draws' = draws + n + 2
            /\ produced' =
                   Append(produced,
                          encryptData(JSONstringify(newVaultData),
                                      masterPassword, draws + n + 1))
            /\ IF ok
               THEN /\ store' = storeVaultData(store, newVaultData,
                                               masterPassword, draws + n + 1)
                    /\ vaultData' = newVaultData
                    /\ lastSaved' = newVaultData
                    /\ toasts' = << title >>
               ELSE /\ vaultData' = vaultAfterFailedSave(newVaultData)
                    /\ toasts' = << "Save Error", title >>
                    /\ UNCHANGED << store, lastSaved >>
            /\ UNCHANGED << isAuthenticated, masterPassword, validatedOK,
                            pvLoading >>
    /\ UNCHANGED << isLoading, hasVault, lastDecrypt >>
    /\ UnchangedOutsideApp

\* The vault screen renders vaultData.entries; a loaded value without
\* entries makes the render throw.
VaultShown == isAuthenticated /\ ~pvLoading /\ vaultData # SevenValue

\* PasswordVault.handleSaveEntry with no entry being edited.
AddEntry(entryData, ok) ==
    /\ VaultShown
    /\ Len(vaultData.entries) < MaxEntries
    /\ clock < MaxClock
    /\ draws + 3 <= MaxDraws
    /\ LET now == Now(clock + 1)
           newEntry ==
               [id |-> Uuid(draws + 1), title |-> entryData.title,
                website |-> entryData.website,
                username |-> entryData.username,
                password |-> entryData.password, notes |-> entryData.notes,
                createdAt |-> now, updatedAt |-> now,
                tags |-> entryData.tags]
       IN  SaveVaultData([vaultData EXCEPT
                             !.entries = Append(vaultData.entries, newEntry)],
                         1, 1, ok, "Password Added")

\* handleSaveEntry while entry i is being edited, as it would be if the
\* map did not compare the ids and updated every entry.
EditEntryUpdatesAll(i, entryData, ok) ==
    /\ VaultShown
    /\ i \in 1..Len(vaultData.entries)
    /\ clock < MaxClock
    /\ draws + 2 <= MaxDraws
    /\ LET now == Now(clock + 1)
           updatedEntries ==
               [j \in 1..Len(vaultData.entries) |->
                   [vaultData.entries[j] EXCEPT
                       !.title = entryData.title,
                       !.website = entryData.website,
                       !.username = entryData.username,
                       !.password = entryData.password,
                       !.notes = entryData.notes,
                       !.tags = entryData.tags,
                       !.updatedAt = now]]
       IN  SaveVaultData([vaultData EXCEPT !.entries = updatedEntries],
                         0, 1, ok, "Password Updated")

\* PasswordVault.handleSaveEntry while entry i is being edited.
EditEntry(i, entryData, ok) ==
    /\ VaultShown
    /\ i \in 1..Len(vaultData.entries)
    /\ clock < MaxClock
    /\ draws + 2 <= MaxDraws
    /\ LET now == Now(clock + 1)
           editingEntry == vaultData.entries[i]
           updatedEntries ==
               [j \in 1..Len(vaultData.entries) |->
                   LET entry == vaultData.entries[j]
                   IN  IF entry.id = editingEntry.id
                       THEN [entry EXCEPT
                                !.title = entryData.title,
                                !.website = entryData.website,
                                !.username = entryData.username,
                                !.password = entryData.password,
                                !.notes = entryData.notes,
                                !.tags = entryData.tags,
                                !.updatedAt = now]
                       ELSE entry]
       IN  SaveVaultData([vaultData EXCEPT !.entries = updatedEntries],
                         0, 1, ok, "Password Updated")

RECURSIVE Filter(_, _)
Filter(es, entryId) ==
    IF es = << >> THEN << >>
    ELSE IF Head(es).id # entryId
         THEN << Head(es) >> \o Filter(Tail(es), entryId)
         ELSE Filter(Tail(es), entryId)

\* PasswordVault.handleDeleteEntry(entryId) for the id of entry i.
DeleteEntry(i, ok) ==
    /\ VaultShown
    /\ i \in 1..Len(vaultData.entries)
    /\ draws + 2 <= MaxDraws
    /\ SaveVaultData([vaultData EXCEPT
                         !.entries = Filter(vaultData.entries,
                                            vaultData.entries[i].id)],
                     0, 0, ok, "Password Deleted")

\* The process ends and the application is started again: memory is lost,
\* the store is kept.
Reload ==
    /\ isLoading' = TRUE
    /\ isAuthenticated' = FALSE
    /\ hasVault' = FALSE
    /\ masterPassword' = NoPassword
    /\ vaultData' = EmptyVault
    /\ pvLoading' = FALSE
    /\ validatedOK' = {}
    /\ toasts' = << >>
    /\ lastSaved' = None
    /\ UNCHANGED << store, draws, produced, clock, lastDecrypt >>
    /\ UnchangedOutsideApp

Next ==
    \/ \E readOk \in BOOLEAN : CheckAuth(readOk)
    \/ \E p, c \in Passwords, ok1, ok2, readOk \in BOOLEAN :
          SetupSubmit(p, c, ok1, ok2, readOk)
    \/ \E p \in Passwords, readOk \in BOOLEAN : Login(p, readOk)
    \/ Logout
    \/ \E readOk \in BOOLEAN : LoadVaultData(readOk)
    \/ \E d \in EntryInputs, ok \in BOOLEAN : AddEntry(d, ok)
    \/ \E i \in 1..MaxEntries, d \in EntryInputs, ok \in BOOLEAN :
          EditEntry(i, d, ok)
    \/ \E i \in 1..MaxEntries, ok \in BOOLEAN : DeleteEntry(i, ok)
    \/ Reload

Spec == Init /\ [][Next]_vars

(***************************************************************************)
(* The vault screen with saves in flight.  handleSaveEntry and             *)
(* handleDeleteEntry build the new vault from the vaultData of the render  *)
(* they were created in and then await saveVaultData; the dialog closes    *)
(* without waiting, so a second handler can start before the first save    *)
(* has resolved and set the state.                                         *)
(***************************************************************************)
UnchangedOutsideRace ==
    UNCHANGED << apiVars, genVars, strengthVars, shuffleVars >>

\* The part of a handler up to the await inside storeVaultData: the new
\* vault is encrypted and Preferences.set is called.  n draws and t
\* timestamps were taken by the handler; mutation names what it did.
IssueSave(newVaultData, n, t, title, mutation) ==
    /\ Len(pending) < MaxPending
    /\ masterPassword # NoPassword
    /\ clock' = clock + t
    /\ draws' = draws + n + 2
    /\ produced' =
           Append(produced,
                  encryptData(JSONstringify(newVaultData), masterPassword,
                              draws + n + 1))
    /\ pending' =
           Append(pending,
                  [vault |-> newVaultData, pw |-> masterPassword,
                   n |-> draws + n + 1, title |-> title,
                   mutation |-> mutation])
    /\ UNCHANGED << store, isAuthenticated, isLoading, hasVault,
                    masterPassword, vaultData, pvLoading, validatedOK,
                    lastDecrypt, toasts, lastSaved, saved >>
    /\ UnchangedOutsideRace

\* handleSaveEntry with no entry being edited, up to the await.
IssueAdd(entryData) ==
    /\ VaultShown
    /\ Len(vaultData.entries) < MaxEntries
    /\ clock < MaxClock
    /\ draws + 3 <= MaxDraws
    /\ LET now == Now(clock + 1)
           newEntry ==
               [id |-> Uuid(draws + 1), title |-> entryData.title,
                website |-> entryData.website,
                username |-> entryData.username,
                password |-> entryData.password, notes |-> entryData.notes,
                createdAt |-> now, updatedAt |-> now,
                tags |-> entryData.tags]
       IN  IssueSave([vaultData EXCEPT
                         !.entries = Append(vaultData.entries, newEntry)],
                     1, 1, "Password Added",
                     [op |-> "add", id |-> newEntry.id])

\* handleSaveEntry while entry i is being edited, up to the await.
IssueEdit(i, entryData) ==
    /\ VaultShown
    /\ i \in 1..Len(vaultData.entries)
    /\ clock < MaxClock
    /\ draws + 2 <= MaxDraws
    /\ LET now == Now(clock + 1)
           editingEntry == vaultData.entries[i]
           updatedEntries ==
               [j \in 1..Len(vaultData.entries) |->
                   LET entry == vaultData.entries[j]
                   IN  IF entry.id = editingEntry.id
                       THEN [entry EXCEPT
                                !.title = entryData.title,
                                !.website = entryData.website,
                                !.username = entryData.username,
                                !.password = entryData.password,
                                !.notes = entryData.notes,
                                !.tags = entryData.tags,
                                !.updatedAt = now]
                       ELSE entry]
       IN  IssueSave([vaultData EXCEPT !.entries = updatedEntries],
                     0, 1, "Password Updated",
                     [op |-> "edit", id |-> editingEntry.id])

\* handleDeleteEntry(entryId) for the id of entry i, up to the await.
IssueDelete(i) ==
    /\ VaultShown
    /\ i \in 1..Len(vaultData.entries)
    /\ draws + 2 <= MaxDraws
    /\ IssueSave([vaultData EXCEPT
                     !.entries = Filter(vaultData.entries,
                                        vaultData.entries[i].id)],
                 0, 0, "Password Deleted",
                 [op |-> "delete", id |-> vaultData.entries[i].id])

\* The oldest save in flight resolves: Preferences.set succeeds (ok) or
\* rejects, saveVaultData sets the state or issues Save Error, and the
\* handler goes on to its toast.
CompleteSave(ok) ==
    /\ pending # << >>
    /\ LET save == Head(pending)
       IN  /\ IF ok
              THEN /\ store' = storeVaultData(store, save.vault, save.pw,
                                              save.n)
                   /\ vaultData' = save.vault
                   /\ lastSaved' = save.vault
                   /\ toasts' = << save.title >>
                   /\ saved' = saved \cup { save.mutation }
              ELSE /\ toasts' = << "Save Error", save.title >>
                   /\ UNCHANGED << store, vaultData, lastSaved, saved >>
    /\ pending' = Tail(pending)
    /\ UNCHANGED << draws, produced, clock, isAuthenticated, isLoading,
                    hasVault, masterPassword, pvLoading, validatedOK,
                    lastDecrypt >>
    /\ UnchangedOutsideRace

RaceNext ==
    \/ CheckAuth(TRUE)
    \/ \E p \in Passwords : SetupSubmit(p, p, TRUE, TRUE, TRUE)
    \/ \E p \in Passwords : Login(p, TRUE)
    \/ LoadVaultData(TRUE)
    \/ \E d \in EntryInputs : IssueAdd(d)
    \/ \E i \in 1..MaxEntries, d \in EntryInputs : IssueEdit(i, d)
    \/ \E i \in 1..MaxEntries : IssueDelete(i)
    \/ \E ok \in BOOLEAN : CompleteSave(ok)

SpecRace == Init /\ [][RaceNext]_vars

(***************************************************************************)
(* The library by itself: the exported functions of lib/encryption and     *)
(* lib/storage called in any order with any arguments.                     *)
(***************************************************************************)
UnchangedOutsideApi ==
    UNCHANGED << appVars, genVars, strengthVars, shuffleVars, raceVars >>

ApiEntry(d, n) ==
    [id |-> Uuid(n), title |-> d.title, website |-> d.website,
     username |-> d.username, password |-> d.password, notes |-> d.notes,
     createdAt |-> Now(n), updatedAt |-> Now(n + 1), tags |-> d.tags]

\* Vault values handed to storeVaultData: no entry, one entry, two.
ApiVaults ==
    LET d1 == CHOOSE d \in EntryInputs : d.tags = << >>
        d2 == CHOOSE d \in EntryInputs : d.tags # << >>
    IN  { EmptyVault,
          [entries |-> << ApiEntry(d2, 1) >>, version |-> "1.0.0"],
          [entries |-> << ApiEntry(d1, 1), ApiEntry(d2, 2) >>,
           version |-> "1.0.0"] }

\* Passwords handed to the library.
ApiPasswords ==
    { "wrong", "correct-horse-battery", "correct-horse-battery\\0" }

\* Plaintexts handed to encryptData.
ApiTexts == { SENTINEL, EmptyText }

\* Envelopes handed to validateMasterPassword: the one created last, and
\* envelopes with a field missing, malformed or replaced.
TestEnvelopes ==
    LET base == IF created = None
                THEN [data |-> MalformedCipher, iv |-> IV(0),
                      salt |-> Salt(0)]
                ELSE created.env
    IN  { base, NullEnvelope,
          [base EXCEPT !.data = MalformedCipher],
          [base EXCEPT !.data = UndefinedCipher],
          [base EXCEPT !.iv = Undefined],
          [base EXCEPT !.iv = IV(0)],
          [base EXCEPT !.salt = Undefined],
          [base EXCEPT !.salt = Salt(0)] }

ApiStoreVaultData(vault, pw, ok) ==
    /\ calls < MaxCalls
    /\ draws + 2 <= MaxDraws
    /\ calls' = calls + 1
    /\ draws' = draws + 2
    /\ produced' =
           Append(produced,
                  encryptData(JSONstringify(vault), pw,
                              draws + 1))
    /\ IF ok
       THEN /\ store' = storeVaultData(store, vault, pw,
                                       draws + 1)
            /\ sealed' = [v |-> vault, pw |-> pw]
            /\ ret' = [op |-> "storeVaultData", out |-> Ok(TRUE)]
       ELSE /\ UNCHANGED << store, sealed >>
            /\ ret' = [op |-> "storeVaultData",
                       out |-> Throw("Failed to save password vault")]
    /\ UNCHANGED created
    /\ UnchangedOutsideApi

ApiGetVaultData(pw) ==
    /\ calls < MaxCalls
    /\ calls' = calls + 1
    /\ \E out \in getVaultData(store, pw) :
          ret' = [op |-> "getVaultData", pw |-> pw, out |-> out]
    /\ UNCHANGED << store, draws, produced, sealed, created >>
    /\ UnchangedOutsideApi

ApiCreateValidationData(pw) ==
    /\ calls < MaxCalls
    /\ draws + 2 <= MaxDraws
    /\ calls' = calls + 1
    /\ draws' = draws + 2
    /\ LET env == createValidationData(pw, draws + 1)
       IN  /\ produced' = Append(produced, env)
           /\ created' = [env |-> env, pw |-> pw]
           /\ ret' = [op |-> "createValidationData", out |-> Ok(env)]
    /\ UNCHANGED << store, sealed >>
    /\ UnchangedOutsideApi

ApiStoreMasterPasswordValidation ==
    /\ calls < MaxCalls
    /\ created # None
    /\ calls' = calls + 1
    /\ store' = storeMasterPasswordValidation(store, created.env)
    /\ ret' = [op |-> "storeMasterPasswordValidation", out |-> Ok(TRUE)]
    /\ UNCHANGED << draws, produced, sealed, created >>
    /\ UnchangedOutsideApi

ApiValidateMasterPassword(password, testData) ==
    /\ calls < MaxCalls
    /\ calls' = calls + 1
    /\ \E r \in validateRuns(password, testData) :
          ret' = [op |-> "validateMasterPassword", pw |-> password,
                  env |-> testData, dec |-> r.dec, out |-> r.out]
    /\ UNCHANGED << store, draws, produced, sealed, created >>
    /\ UnchangedOutsideApi

ApiEncryptData(data, pw) ==
    /\ calls < MaxCalls
    /\ draws + 2 <= MaxDraws
    /\ calls' = calls + 1
    /\ draws' = draws + 2
    /\ LET env == encryptData(data, pw, draws + 1)
       IN  /\ produced' = Append(produced, env)
           /\ ret' = [op |-> "encryptData", out |-> Ok(env)]
    /\ UNCHANGED << store, sealed, created >>
    /\ UnchangedOutsideApi

\* Values the vault key can hold after the stored string was damaged
\* outside the application: a string that is no JSON, the JSON text null,
\* and the stored envelope with its ciphertext or its salt destroyed.
TamperedValues(value) ==
    { MalformedJSON, EnvelopeJSON(NullEnvelope) }
    \cup (IF value.k = "json" /\ value.v # NullEnvelope
          THEN { EnvelopeJSON([value.v EXCEPT !.data = MalformedCipher]),
                 EnvelopeJSON([value.v EXCEPT !.salt = Undefined]) }
          ELSE {})

\* The stored vault string is damaged (Preferences are plain files of the
\* device).
ApiTamperVault(value) ==
    /\ calls < MaxCalls
    /\ store[VAULT_DATA] # Absent
    /\ value \in TamperedValues(store[VAULT_DATA])
    /\ calls' = calls + 1
    /\ store' = [store EXCEPT ![VAULT_DATA] = value]
    /\ sealed' = None
    /\ ret' = [op |-> "tamper", out |-> Ok(TRUE)]
    /\ UNCHANGED << draws, produced, created >>
    /\ UnchangedOutsideApi

ApiNext ==
    \/ \E v \in ApiVaults, p \in ApiPasswords, ok \in BOOLEAN :
          ApiStoreVaultData(v, p, ok)
    \/ \E p \in ApiPasswords : ApiGetVaultData(p)
    \/ \E p \in ApiPasswords : ApiCreateValidationData(p)
    \/ ApiStoreMasterPasswordValidation
    \/ \E p \in ApiPasswords, e \in TestEnvelopes :
          ApiValidateMasterPassword(p, e)
    \/ \E t \in ApiTexts, p \in ApiPasswords : ApiEncryptData(t, p)
    \/ \E value \in TamperedValues(store[VAULT_DATA]) : ApiTamperVault(value)

SpecApi == Init /\ [][ApiNext]_vars

(***************************************************************************)
(* lib/password-generator.  A string is a sequence of characters; tape is  *)
(* the sequence of bytes crypto.getRandomValues hands out during a call.   *)
(***************************************************************************)
UPPERCASE ==
    << "A", "B", "C", "D", "E", "F", "G", "H", "I", "J", "K", "L", "M",
       "N", "O", "P", "Q", "R", "S", "T", "U", "V", "W", "X", "Y", "Z" >>
LOWERCASE ==
    << "a", "b", "c", "d", "e", "f", "g", "h", "i", "j", "k", "l", "m",
       "n", "o", "p", "q", "r", "s", "t", "u", "v", "w", "x", "y", "z" >>
NUMBERS == << "0", "1", "2", "3", "4", "5", "6", "7", "8", "9" >>
SPECIAL_CHARS ==
    << "!", "@", "#", "$", "%", "^", "&", "*", "(", ")", "_", "+", "-",
       "=", "[", "]", "{", "}", "|", ";", ":", ",", ".", "<", ">", "?" >>
SIMILAR_CHARS == { "i", "l", "1", "L", "o", "0", "O" }

\* new Set(str): the characters of a string.
CharsOf(str) == { str[i] : i \in DOMAIN str }

\* str.replace(/[chars]/g, '')
Without(str, chars) == SelectSeq(str, LAMBDA c : c \notin chars)

\* The character classes of the four replace calls of generatePassword.
\* The grave accent is written "grave": it cannot stand in a string here.
UpperSimilar == { "I", "L" }
LowerSimilar == { "i", "l" }
NumberSimilar == { "1", "0" }
SpecialAmbiguous ==
    { "{", "}", "[", "]", "(", ")", "/", "\\", "'", "\"", "grave", ",",
      ";",
      ".", "<", ">" }

getRandomChar(str, byte) == str[(byte % Len(str)) + 1]

\* array after the loop of shuffleString has run from index i down to 1,
\* taking its bytes from position k of the tape on.
RECURSIVE ShuffleFrom(_, _, _, _)
ShuffleFrom(array, i, tape, k) ==
    IF i <= 0 THEN array
    ELSE LET j == tape[k] % (i + 1)
             swapped == [array EXCEPT ![i + 1] = array[j + 1],
                                      ![j + 1] = array[i + 1]]
         IN  ShuffleFrom(swapped, i - 1, tape, k + 1)

\* The loop as it would be if it copied array[j] to array[i] and did not
\* put array[i] back at j.
RECURSIVE OverwriteFrom(_, _, _, _)
OverwriteFrom(array, i, tape, k) ==
    IF i <= 0 THEN array
    ELSE LET j == tape[k] % (i + 1)
             copied == [array EXCEPT ![i + 1] = array[j + 1]]
         IN  OverwriteFrom(copied, i - 1, tape, k + 1)

shuffleStringOverwrites(str, tape) ==
    OverwriteFrom(str, Len(str) - 1, tape, 1)

\* The loop as it would be if it copied array[i] to array[j] and did not
\* put array[j] at i.
RECURSIVE OverwriteBackFrom(_, _, _, _)
OverwriteBackFrom(array, i, tape, k) ==
    IF i <= 0 THEN array
    ELSE LET j == tape[k] % (i + 1)
             copied == [array EXCEPT ![j + 1] = array[i + 1]]
         IN  OverwriteBackFrom(copied, i - 1, tape, k + 1)

shuffleStringLosesSwapped(str, tape) ==
    OverwriteBackFrom(str, Len(str) - 1, tape, 1)

shuffleString(str, tape) == ShuffleFrom(str, Len(str) - 1, tape, 1)

\* The pairs i, j of the swaps shuffleString makes, in the order of the
\* loop: i runs from array.length - 1 down to 1, j = randomBytes[0] % (i + 1).
SwapIndices(str, tape) ==
    [k \in 1..(Len(str) - 1) |->
        [i |-> Len(str) - k, j |-> tape[k] % (Len(str) - k + 1)]]

\* options.numberCount || 1
OrOne(count) == IF count = << >> \/ count[1] = 0 THEN 1 ELSE count[1]

\* The length test as it would be if it were off by one.
tooShortOffByOne(remainingLength) == remainingLength < -1

\* The test that throws the length error.
tooShort(remainingLength) == remainingLength < 0

\* The alphabets of the enabled classes, after the exclusions.
upperCharsOf(options) ==
    IF options.excludeSimilar THEN Without(UPPERCASE, UpperSimilar)
    ELSE UPPERCASE
lowerCharsOf(options) ==
    IF options.excludeSimilar THEN Without(LOWERCASE, LowerSimilar)
    ELSE LOWERCASE
numberCharsOf(options) ==
    IF options.excludeSimilar THEN Without(NUMBERS, NumberSimilar)
    ELSE NUMBERS
\* specialChars as it would be without the excludeAmbiguous filter.
specialCharsOfUnfiltered(options) == SPECIAL_CHARS

specialCharsOf(options) ==
    IF options.excludeAmbiguous THEN Without(SPECIAL_CHARS, SpecialAmbiguous)
    ELSE SPECIAL_CHARS

\* charset as it would be if it started as ' ' and not as ''.
charsetOfNeverEmpty(options) ==
    << " " >>
    \o (IF options.includeUppercase THEN upperCharsOf(options) ELSE << >>)
    \o (IF options.includeLowercase THEN lowerCharsOf(options) ELSE << >>)
    \o (IF options.includeNumbers THEN numberCharsOf(options) ELSE << >>)
    \o (IF options.includeSpecialChars THEN specialCharsOf(options)
        ELSE << >>)

charsetOf(options) ==
    (IF options.includeUppercase THEN upperCharsOf(options) ELSE << >>)
    \o (IF options.includeLowercase THEN lowerCharsOf(options) ELSE << >>)
    \o (IF options.includeNumbers THEN numberCharsOf(options) ELSE << >>)
    \o (IF options.includeSpecialChars THEN specialCharsOf(options)
        ELSE << >>)

\* How many required characters generatePassword draws from each class.
requiredCounts(options) ==
    [upper |-> IF options.includeUppercase THEN 1 ELSE 0,
     lower |-> IF options.includeLowercase THEN 1 ELSE 0,
     number |-> IF options.includeNumbers THEN OrOne(options.numberCount)
                ELSE 0,
     special |-> IF options.includeSpecialChars
                 THEN OrOne(options.specialCharCount) ELSE 0]

requiredLength(options) ==
    LET c == requiredCounts(options)
    IN  c.upper + c.lower + c.number + c.special

\* count characters of str, chosen by the tape bytes from position k on.
DrawChars(str, tape, k, count) ==
    [i \in 1..count |-> getRandomChar(str, tape[k + i - 1])]

\* The outcome of generatePassword(options) when the random bytes are tape.
generatePassword(options, tape) ==
    LET c == requiredCounts(options)
        charset == charsetOf(options)
        requiredChars ==
            DrawChars(upperCharsOf(options), tape, 1, c.upper)
            \o DrawChars(lowerCharsOf(options), tape, 1 + c.upper, c.lower)
            \o DrawChars(numberCharsOf(options), tape,
                         1 + c.upper + c.lower, c.number)
            \o DrawChars(specialCharsOf(options), tape,
                         1 + c.upper + c.lower + c.number, c.special)
        remainingLength == options.length - Len(requiredChars)
    IN  IF charset = << >>
        THEN Throw("At least one character type must be selected")
        ELSE IF tooShort(remainingLength)
        THEN Throw("Password length is too short for the required character counts")
        ELSE LET fill == IF remainingLength > 0 THEN remainingLength ELSE 0
                 password ==
                     requiredChars
                     \o DrawChars(charset, tape, Len(requiredChars) + 1, fill)
             IN  Ok(shuffleString(password,
                                  SubSeq(tape, Len(password) + 1, Len(tape))))

\* Byte values the random source is sampled at: 12 takes the thirteenth
\* character of a class alphabet (index 12 % length), 255 one further on;
\* in the shuffle 12 swaps with the front and 255 with another place.
Bytes == { 12, 255 }

\* The number of bytes a call may take: the required characters, the fill
\* and one byte for each swap of the shuffle.
TapeLength(options) ==
    LET r == requiredLength(options)
        n == IF r > options.length THEN r ELSE options.length
    IN  IF r > options.length + 1 THEN r
        ELSE IF n = 0 THEN 0 ELSE 2 * n - 1

Counts == { << >> } \cup { << n >> : n \in 0..MaxCount }

Options ==
    [length : 0..MaxLength, includeUppercase : BOOLEAN,
     includeLowercase : BOOLEAN, includeNumbers : BOOLEAN,
     includeSpecialChars : BOOLEAN, numberCount : Counts,
     specialCharCount : Counts, excludeSimilar : BOOLEAN,
     excludeAmbiguous : BOOLEAN]

\* PasswordGenerator.handleGenerate: one call of generatePassword.
HandleGenerate ==
    /\ genResult = None
    /\ \E tape \in [1..TapeLength(genOptions) -> Bytes] :
          genResult' = generatePassword(genOptions, tape)
    /\ UNCHANGED << genOptions, store, draws, produced, appVars, apiVars,
                    strengthVars, shuffleVars, raceVars >>

GenInit ==
    /\ StoreInit
    /\ AppInit
    /\ ApiInit
    /\ genOptions \in Options
    /\ genResult = None
    /\ StrengthIdle
    /\ ShuffleIdle
    /\ RaceIdle

GenNext == HandleGenerate

SpecGen == GenInit /\ [][GenNext]_vars

\* Strings handed to shuffleString by itself, and the bytes the random
\* source hands it: every j from 0 to i is met for each i.
ShuffleChars == { "a", "b", "1" }
ShuffleInputs ==
    UNION { [1..n -> ShuffleChars] : n \in 0..MaxShuffleLen }
ShuffleBytes == { 0, 1, 2, 3, 4, 255 }

\* One call of shuffleString(str).
ShuffleCall ==
    /\ shuffleResult = None
    /\ \E tape \in [1..(IF Len(shuffleInput) = 0 THEN 0
                         ELSE Len(shuffleInput) - 1) -> ShuffleBytes] :
          shuffleResult' =
              [out |-> shuffleString(shuffleInput, tape),
               swaps |-> SwapIndices(shuffleInput, tape)]
    /\ UNCHANGED << shuffleInput, store, draws, produced, appVars, apiVars,
                    genVars, strengthVars, raceVars >>

ShuffleInit ==
    /\ StoreInit
    /\ AppInit
    /\ ApiInit
    /\ GenIdle
    /\ StrengthIdle
    /\ shuffleInput \in ShuffleInputs
    /\ shuffleResult = None
    /\ RaceIdle

ShuffleNext == ShuffleCall

SpecShuffle == ShuffleInit /\ [][ShuffleNext]_vars

(***************************************************************************)
(* estimatePasswordStrength.  A JavaScript number is a record: NaN, or a   *)
(* finite value held in thousandths and rounded down, so that a comparison *)
(* of the value with a whole number is the comparison of the thousandths.  *)
(***************************************************************************)
Num(m) == [nan |-> FALSE, milli |-> m]
NaN == [nan |-> TRUE, milli |-> 0]
Whole(n) == Num(1000 * n)

\* a + b, Math.min(a, b), Math.max(a, b) and a < b, a >= b on numbers.
Plus(a, b) == IF a.nan \/ b.nan THEN NaN ELSE Num(a.milli + b.milli)
MathMin(a, b) ==
    IF a.nan \/ b.nan THEN NaN ELSE IF a.milli <= b.milli THEN a ELSE b
MathMax(a, b) ==
    IF a.nan \/ b.nan THEN NaN ELSE IF a.milli >= b.milli THEN a ELSE b
Less(a, b) == ~a.nan /\ ~b.nan /\ a.milli < b.milli
AtLeast(a, b) == ~a.nan /\ ~b.nan /\ a.milli >= b.milli

\* floor(10^7 * log2(u)) for u = 1, 2, ...
Log2Table ==
    << 0, 10000000, 15849625, 20000000, 23219280, 25849625, 28073549,
       30000000, 31699250, 33219280, 34594316, 35849625, 37004397,
       38073549, 39068905, 40000000, 40874628, 41699250, 42479275,
       43219280, 43923174, 44594316, 45235619, 45849625, 46438561,
       47004397 >>

\* (password.length * Math.log2(uniqueChars)) / 4.  For the empty string
\* Math.log2(0) is -Infinity and 0 * -Infinity is NaN.
EntropyQuarter(length, uniqueChars) ==
    IF uniqueChars = 0 THEN NaN
    ELSE Num((length * Log2Table[uniqueChars]) \div 40000)

\* /[a-z]/, /[A-Z]/, /\d/ and /[^a-zA-Z\d]/ .test(password)
HasLower(password) == \E i \in DOMAIN password : password[i] \in CharsOf(LOWERCASE)
HasUpper(password) == \E i \in DOMAIN password : password[i] \in CharsOf(UPPERCASE)
HasDigit(password) == \E i \in DOMAIN password : password[i] \in CharsOf(NUMBERS)
HasOther(password) ==
    \E i \in DOMAIN password :
        password[i] \notin
            CharsOf(LOWERCASE) \cup CharsOf(UPPERCASE) \cup CharsOf(NUMBERS)

\* /(.)\1{2,}/.test(password)
HasRepeat(password) ==
    \E i \in 1..(Len(password) - 2) :
        password[i] = password[i + 1] /\ password[i] = password[i + 2]

\* The lowercase form of a character, for the i flag.
LowerOf(c) ==
    IF c \in CharsOf(UPPERCASE)
    THEN LOWERCASE[CHOOSE i \in DOMAIN UPPERCASE : UPPERCASE[i] = c]
    ELSE c

\* /123|abc|qwe/i.test(password)
HasCommon(password) ==
    \E i \in 1..(Len(password) - 2) :
        << LowerOf(password[i]), LowerOf(password[i + 1]),
           LowerOf(password[i + 2]) >>
            \in { << "1", "2", "3" >>, << "a", "b", "c" >>,
                  << "q", "w", "e" >> }

\* The label and color of a clamped score.
strengthBand(score) ==
    IF Less(score, Whole(30))
    THEN [score |-> score, label |-> "Weak", color |-> "destructive"]
    ELSE IF Less(score, Whole(60))
    THEN [score |-> score, label |-> "Fair", color |-> "accent"]
    ELSE IF Less(score, Whole(80))
    THEN [score |-> score, label |-> "Good", color |-> "primary"]
    ELSE [score |-> score, label |-> "Strong", color |-> "primary"]

estimatePasswordStrength(password) ==
    LET length == Len(password)
        s1 == MathMin(Whole(length * 4), Whole(25))
        s2 == Plus(s1, Whole(IF HasLower(password) THEN 5 ELSE 0))
        s3 == Plus(s2, Whole(IF HasUpper(password) THEN 5 ELSE 0))
        s4 == Plus(s3, Whole(IF HasDigit(password) THEN 5 ELSE 0))
        s5 == Plus(s4, Whole(IF HasOther(password) THEN 10 ELSE 0))
        s6 == Plus(s5, Whole(IF HasRepeat(password) THEN -10 ELSE 0))
        s7 == Plus(s6, Whole(IF HasCommon(password) THEN -10 ELSE 0))
        s8 == Plus(s7, Whole(IF length >= 16 THEN 10 ELSE 0))
        s9 == Plus(s8, Whole(IF length >= 20 THEN 10 ELSE 0))
        s10 == Plus(s9, Whole(IF length < 8 THEN -20 ELSE 0))
        uniqueChars == Cardinality(CharsOf(password))
        s11 == Plus(s10, MathMin(EntropyQuarter(length, uniqueChars),
                                 Whole(25)))
        score == MathMax(Whole(0), MathMin(Whole(100), s11))
    IN  strengthBand(score)

\* The first n characters of pattern repeated without end.
Cycle(pattern, n) ==
    [i \in 1..n |-> pattern[((i - 1) % Len(pattern)) + 1]]

\* Strings handed to estimatePasswordStrength: one character repeated,
\* common patterns in both cases, words, and a mix of all four classes.
StrengthPatterns ==
    { << "a" >>,
      << "a", "b", "c", "1", "2", "3" >>,
      << "Q", "W", "E", "r", "t", "y", "7" >>,
      << "h", "o", "r", "s", "e", "-", "b", "a", "t", "e", "r", "y" >>,
      << "T", "r", "0", "u", "b", "4", "d", "o", "&", "3", "x", "K", "q",
         "!", "Z", "m" >> }

StrengthInputs ==
    { Cycle(pattern, n) : pattern \in StrengthPatterns, n \in 0..MaxStrLen }

\* PasswordStrength: one call of estimatePasswordStrength.
EstimateStrength ==
    /\ strengthResult = None
    /\ strengthResult' = estimatePasswordStrength(strengthInput)
    /\ UNCHANGED << strengthInput, store, draws, produced, appVars, apiVars,
                    genVars, shuffleVars, raceVars >>

StrengthInit ==
    /\ StoreInit
    /\ AppInit
    /\ ApiInit
    /\ GenIdle
    /\ strengthInput \in StrengthInputs
    /\ strengthResult = None
    /\ ShuffleIdle
    /\ RaceIdle

StrengthNext == EstimateStrength

SpecStrength == StrengthInit /\ [][StrengthNext]_vars

(***************************************************************************)
(* Properties.                                                             *)
(***************************************************************************)
LastCall(op) == ret # None /\ ret.op = op

\* C1: a vault stored by storeVaultData under a password and read back by
\* getVaultData under the same password is the vault that was stored.
C1_RoundTrip ==
    (LastCall("getVaultData") /\ sealed # None /\ ret.pw = sealed.pw)
        => ret.out = Ok(sealed.v)

C1_Witness ==
    /\ LastCall("getVaultData")
    /\ sealed # None
    /\ ret.pw = sealed.pw
    /\ Len(sealed.v.entries) = 2
    /\ ret.out = Ok(sealed.v)

\* C2: getVaultData under a password other than the one the vault was
\* stored under fails with the decryption error and returns no value.
C2_WrongKeyRejected ==
    (LastCall("getVaultData") /\ sealed # None /\ ret.pw # sealed.pw)
        => ret.out = Throw(DecryptError)

\* C3: validateMasterPassword on the envelope createValidationData made
\* for a password returns true exactly for that password.
C3_ValidationCorrect ==
    (LastCall("validateMasterPassword") /\ created # None
     /\ ret.env = created.env)
        => (ret.out = Ok(TRUE) <=> ret.pw = created.pw)

\* What holds of validation: validateMasterPassword on the envelope
\* createValidationData made for a password returns true exactly for the
\* passwords that are the same HMAC key as that password: the password
\* itself, and the password with NUL characters added or removed at its
\* end.
C3_ValidationByKey ==
    (LastCall("validateMasterPassword") /\ created # None
     /\ ret.env = created.env)
        => (ret.out = Ok(TRUE) <=> HmacKey(ret.pw) = HmacKey(created.pw))

\* A password other than the one of the envelope is accepted.
ValidationByKeyWitness ==
    /\ LastCall("validateMasterPassword")
    /\ created # None
    /\ ret.env = created.env
    /\ ret.pw # created.pw
    /\ ret.out = Ok(TRUE)

\* C4: validateMasterPassword returns a boolean for every password and
\* every envelope, and returns false when decryptData threw or gave a text
\* other than the sentinel.
C4_ValidateNeverThrows ==
    LastCall("validateMasterPassword")
        => /\ ret.out \in { Ok(TRUE), Ok(FALSE) }
           /\ (ret.dec.k = "throw" \/ ret.dec.v # SENTINEL)
                  => ret.out = Ok(FALSE)

C4_Witness ==
    /\ LastCall("validateMasterPassword")
    /\ ret.env = NullEnvelope
    /\ ret.dec.k = "throw"
    /\ ret.out = Ok(FALSE)

\* C5: no two envelopes produced by encryptData, createValidationData or
\* storeVaultData have the same salt, and no two have the same iv.
C5_EnvelopesFresh ==
    \A i, j \in DOMAIN produced :
        i # j => /\ produced[i].salt # produced[j].salt
                 /\ produced[i].iv # produced[j].iv

C5_Witness ==
    /\ Len(produced) >= 2
    /\ produced[1].data.pt = produced[2].data.pt
    /\ produced[1].data.key.pw = produced[2].data.key.pw
    /\ produced[1].salt # produced[2].salt

\* A stored envelope in which a password occurs only as the key of the
\* encryption: its salt and iv are values of the random source, its data
\* is a ciphertext under the key derived with that salt.
IsSealedEnvelope(value) ==
    /\ value.k = "json"
    /\ value.v # NullEnvelope
    /\ value.v.salt \in { Salt(n) : n \in 1..draws }
    /\ value.v.iv \in { IV(n) : n \in 1..draws }
    /\ value.v.data \notin { MalformedCipher, UndefinedCipher }
    /\ value.v.data.key.salt = value.v.salt
    /\ value.v.data.key.pw \in Passwords

\* C6: the store never holds the master password: the two envelope keys
\* hold nothing or an envelope of random salt, random iv and ciphertext,
\* and a preference key holds nothing or a scalar that is no password.
C6_PasswordNeverStored ==
    /\ \A key \in { VAULT_DATA, MASTER_PASSWORD_VALIDATION } :
          store[key] = Absent \/ IsSealedEnvelope(store[key])
    /\ \A key \in { BIOMETRIC_ENABLED, AUTO_LOCK_TIMEOUT } :
          \/ store[key] = Absent
          \/ store[key].k = "scalar" /\ store[key].v \notin Passwords

C6_Witness ==
    /\ VaultShown
    /\ masterPassword # NoPassword
    /\ store[MASTER_PASSWORD_VALIDATION] # Absent
    /\ store[VAULT_DATA] # Absent
    /\ Len(vaultData.entries) >= 1
    /\ store[VAULT_DATA].v.data.pt = JSONstringify(vaultData)

\* C7: the master password is in memory exactly while the session is
\* authenticated, and it is a password validateMasterPassword accepted
\* since the last logout.
C7_PasswordLifecycle ==
    /\ isAuthenticated <=> masterPassword # NoPassword
    /\ masterPassword # NoPassword => masterPassword \in validatedOK

C7_Witness == isAuthenticated /\ masterPassword \in validatedOK

\* C8: every decryption attempt on the stored vault is made with a
\* password validateMasterPassword accepted in the same session.
C8_ValidationPrecedesDecrypt ==
    lastDecrypt # None => lastDecrypt.validated

C8_Witness == lastDecrypt # None /\ lastDecrypt.validated

\* The minimum the options ask for: an absent count counts as one.
MinimumOf(count) == IF count = << >> THEN 1 ELSE count[1]

\* The number of required characters: the minimum of digits, the minimum
\* of specials and one for each other enabled class.
RequiredBySpec(options) ==
    (IF options.includeUppercase THEN 1 ELSE 0)
    + (IF options.includeLowercase THEN 1 ELSE 0)
    + (IF options.includeNumbers THEN MinimumOf(options.numberCount) ELSE 0)
    + (IF options.includeSpecialChars
       THEN MinimumOf(options.specialCharCount) ELSE 0)

ValidOptions(options) ==
    /\ options.length >= 1
    /\ \/ options.includeUppercase
       \/ options.includeLowercase
       \/ options.includeNumbers
       \/ options.includeSpecialChars
    /\ RequiredBySpec(options) <= options.length

\* C9: for valid options generatePassword returns a string of exactly
\* options.length characters.
C9_GeneratorLength ==
    (genResult # None /\ ValidOptions(genOptions))
        => /\ genResult.k = "ok"
           /\ Len(genResult.v) = genOptions.length

\* What holds of the length: a password that is returned has exactly
\* options.length characters.
ReturnedLength ==
    genResult.k = "ok" => Len(genResult.v) = genOptions.length

TooShortError ==
    Throw("Password length is too short for the required character counts")

\* C10: generatePassword throws the length error when the required
\* characters are more than options.length.
C10_TooShortFails ==
    (genResult # None /\ RequiredBySpec(genOptions) > genOptions.length)
        => genResult = TooShortError

C10_Witness ==
    /\ genResult = TooShortError
    /\ RequiredBySpec(genOptions) = genOptions.length + 1

EmptyAlphabetError == Throw("At least one character type must be selected")

NoClassEnabled(options) ==
    /\ ~options.includeUppercase
    /\ ~options.includeLowercase
    /\ ~options.includeNumbers
    /\ ~options.includeSpecialChars

\* C11: generatePassword throws the empty-alphabet error whenever no
\* character class is enabled, whatever the length and the other options.
C11_EmptyAlphabetFails ==
    (genResult # None /\ NoClassEnabled(genOptions))
        => genResult = EmptyAlphabetError

C11_Witness ==
    /\ genResult = EmptyAlphabetError
    /\ NoClassEnabled(genOptions)
    /\ genOptions.length = MaxLength
    /\ genOptions.numberCount = << MaxCount >>
    /\ genOptions.excludeSimilar

\* The number of characters of str that are in the set chars.
CountIn(str, chars) == Cardinality({ i \in DOMAIN str : str[i] \in chars })

\* C12: a returned password has at least numberCount digits when digits
\* are enabled, at least specialCharCount specials when specials are
\* enabled, and an uppercase and a lowercase letter when these are enabled.
C12_ClassSatisfaction ==
    genResult.k = "ok" =>
        /\ genOptions.includeUppercase
              => CountIn(genResult.v, CharsOf(UPPERCASE)) >= 1
        /\ genOptions.includeLowercase
              => CountIn(genResult.v, CharsOf(LOWERCASE)) >= 1
        /\ genOptions.includeNumbers
              => CountIn(genResult.v, CharsOf(NUMBERS))
                     >= MinimumOf(genOptions.numberCount)
        /\ genOptions.includeSpecialChars
              => CountIn(genResult.v, CharsOf(SPECIAL_CHARS))
                     >= MinimumOf(genOptions.specialCharCount)

C12_Witness ==
    /\ genResult.k = "ok"
    /\ genOptions.includeUppercase
    /\ genOptions.includeNumbers
    /\ genOptions.numberCount = << 2 >>
    /\ ~genOptions.includeLowercase
    /\ ~genOptions.includeSpecialChars
    /\ Len(genResult.v) = 3
    /\ CountIn(genResult.v, CharsOf(NUMBERS)) = 2
    /\ genResult.v[3] \in CharsOf(UPPERCASE)

\* C13: with excludeSimilar a returned password has none of the
\* characters i, l, 1, L, o, 0, O.
C13_ExcludesSimilar ==
    (genResult.k = "ok" /\ genOptions.excludeSimilar)
        => CharsOf(genResult.v) \cap SIMILAR_CHARS = {}

\* What holds of the exclusion: with excludeSimilar a returned password
\* has none of the characters I, L, i, l, 1, 0.
ExcludesReplaced ==
    (genResult.k = "ok" /\ genOptions.excludeSimilar)
        => CharsOf(genResult.v)
               \cap (UpperSimilar \cup LowerSimilar \cup NumberSimilar) = {}

\* C19: generatePassword draws numberCount digits and specialCharCount
\* specials as required characters, also for a count of 0, and one
\* character of each other enabled class; it returns a password whenever
\* these counts together are at most options.length.
C19_RequiredCounts ==
    genResult # None =>
        /\ requiredCounts(genOptions).upper
               = (IF genOptions.includeUppercase THEN 1 ELSE 0)
        /\ requiredCounts(genOptions).lower
               = (IF genOptions.includeLowercase THEN 1 ELSE 0)
        /\ requiredCounts(genOptions).number
               = (IF genOptions.includeNumbers
                  THEN MinimumOf(genOptions.numberCount) ELSE 0)
        /\ requiredCounts(genOptions).special
               = (IF genOptions.includeSpecialChars
                  THEN MinimumOf(genOptions.specialCharCount) ELSE 0)
        /\ (~NoClassEnabled(genOptions)
            /\ RequiredBySpec(genOptions) <= genOptions.length)
               => genResult.k = "ok"

\* C14: estimatePasswordStrength returns a score from 0 to 100 for every
\* string, the empty string included.
C14_ScoreInRange ==
    strengthResult # None
        => /\ AtLeast(strengthResult.score, Whole(0))
           /\ AtLeast(Whole(100), strengthResult.score)

\* What holds of the score: it is from 0 to 100 for every string that is
\* not empty.
ScoreInRangeNonEmpty ==
    (strengthResult # None /\ strengthInput # << >>)
        => /\ AtLeast(strengthResult.score, Whole(0))
           /\ AtLeast(Whole(100), strengthResult.score)

\* C20: the label estimatePasswordStrength returns is the band of the
\* score it returns: Weak below 30, Fair from 30 and below 60, Good from
\* 60 and below 80, Strong from 80.
C20_LabelBands ==
    strengthResult # None =>
        LET score == strengthResult.score
            label == strengthResult.label
        IN  /\ label = "Weak" <=> Less(score, Whole(30))
            /\ label = "Fair"
                   <=> (AtLeast(score, Whole(30)) /\ Less(score, Whole(60)))
            /\ label = "Good"
                   <=> (AtLeast(score, Whole(60)) /\ Less(score, Whole(80)))
            /\ label = "Strong" <=> AtLeast(score, Whole(80))

\* What holds of the label: it is the band of the score for every string
\* that is not empty.
LabelBandsNonEmpty ==
    (strengthResult # None /\ strengthInput # << >>) =>
        LET score == strengthResult.score
            label == strengthResult.label
        IN  /\ label = "Weak" <=> Less(score, Whole(30))
            /\ label = "Fair"
                   <=> (AtLeast(score, Whole(30)) /\ Less(score, Whole(60)))
            /\ label = "Good"
                   <=> (AtLeast(score, Whole(60)) /\ Less(score, Whole(80)))
            /\ label = "Strong" <=> AtLeast(score, Whole(80))

\* C15: getVaultData raises the one generic error for every cause of
\* failure: a password other than the one the vault was stored under, a
\* damaged ciphertext, a stored string that is no envelope.
C15_FailuresIdentical ==
    (/\ LastCall("getVaultData")
     /\ store[VAULT_DATA] # Absent
     /\ (sealed = None \/ ret.pw # sealed.pw))
        => ret.out = Throw(DecryptError)

\* What holds of the failures: every error getVaultData raises is the
\* generic error, whatever the cause.
EveryErrorGeneric ==
    (LastCall("getVaultData") /\ ret.out.k = "throw")
        => ret.out = Throw(DecryptError)

\* C16: decryptData with a key derived from another password, or on a
\* damaged ciphertext, throws and returns no string.
C16_FailClosed ==
    (/\ LastCall("validateMasterPassword")
     /\ created # None
     /\ \/ ret.env = created.env /\ ret.pw # created.pw
        \/ ret.env = [created.env EXCEPT !.data = MalformedCipher])
        => ret.dec.k = "throw"

\* The ids of the records of a vault, in order.
IdsOf(v) == [j \in DOMAIN v.entries |-> v.entries[j].id]

\* A sequence without its element at position i.
WithoutAt(seq, i) == SubSeq(seq, 1, i - 1) \o SubSeq(seq, i + 1, Len(seq))

\* The step is a saved edit of record i with the form data d.
SavedEdit(i, d) == EditEntry(i, d, TRUE) /\ masterPassword # NoPassword

\* C17: a saved edit keeps the id and createdAt of the edited record, sets
\* its updatedAt to the time of the edit and leaves every other record as
\* it was; an add keeps the ids of the records there were, and a delete
\* keeps the ids of the records that stay.
C17_EditKeepsIdentity ==
    [][ /\ \A i \in 1..MaxEntries, d \in EntryInputs :
              SavedEdit(i, d) =>
                  /\ Len(vaultData'.entries) = Len(vaultData.entries)
                  /\ vaultData'.entries[i].id = vaultData.entries[i].id
                  /\ vaultData'.entries[i].createdAt
                         = vaultData.entries[i].createdAt
                  /\ vaultData'.entries[i].updatedAt = Now(clock + 1)
                  /\ \A j \in DOMAIN vaultData.entries :
                        j # i => vaultData'.entries[j] = vaultData.entries[j]
        /\ \A d \in EntryInputs, ok \in BOOLEAN :
              AddEntry(d, ok) =>
                  SubSeq(IdsOf(vaultData'), 1, Len(vaultData.entries))
                      = IdsOf(vaultData)
        /\ \A i \in 1..MaxEntries, d \in EntryInputs, ok \in BOOLEAN :
              EditEntry(i, d, ok) => IdsOf(vaultData') = IdsOf(vaultData)
        /\ \A i \in 1..MaxEntries :
              DeleteEntry(i, TRUE) =>
                  IdsOf(vaultData') = WithoutAt(IdsOf(vaultData), i)
      ]_vars

\* Two records, the first edited since it was made, the second not.
C17_Witness ==
    /\ VaultShown
    /\ Len(vaultData.entries) = 2
    /\ vaultData.entries[1].updatedAt # vaultData.entries[1].createdAt
    /\ vaultData.entries[2].updatedAt = vaultData.entries[2].createdAt
    /\ vaultData.entries[1].id # vaultData.entries[2].id
    /\ store[VAULT_DATA] # Absent

\* The two stores hold the same value under every key but one.
SameExceptAt(st1, st2, key) ==
    \A other \in STORAGE_KEYS \ { key } : st1[other] = st2[other]

\* C18: a step that stores the vault (add, edit, delete) changes the store
\* under the vault key only; storing the validation data changes it under
\* the validation key only; a login leaves the store and the record of
\* vault decryptions as they were, and accepts the password exactly when
\* it would with no vault envelope in the store.
C18_StoredIndependently ==
    [][ /\ ( \/ \E d \in EntryInputs, ok \in BOOLEAN : AddEntry(d, ok)
             \/ \E i \in 1..MaxEntries, d \in EntryInputs, ok \in BOOLEAN :
                   EditEntry(i, d, ok)
             \/ \E i \in 1..MaxEntries, ok \in BOOLEAN : DeleteEntry(i, ok) )
               => SameExceptAt(store', store, VAULT_DATA)
        /\ \A p, c \in Passwords :
              SetupSubmit(p, c, TRUE, FALSE, TRUE)
                  => SameExceptAt(store', store, MASTER_PASSWORD_VALIDATION)
        /\ \A p \in Passwords :
              Login(p, TRUE) =>
                  /\ store' = store
                  /\ lastDecrypt' = lastDecrypt
                  /\ isAuthenticated'
                         <=> Ok(TRUE) \in
                                 validateMasterPassword(
                                     p,
                                     getMasterPasswordValidation(
                                         [store EXCEPT
                                             ![VAULT_DATA] = Absent]))
      ]_vars

\* A session is open on a vault of two records: the validation envelope
\* still holds the sentinel and the vault envelope holds the vault.
C18_Witness ==
    /\ VaultShown
    /\ Len(vaultData.entries) = 2
    /\ store[MASTER_PASSWORD_VALIDATION] # Absent
    /\ store[MASTER_PASSWORD_VALIDATION].v.data.pt = SENTINEL
    /\ store[VAULT_DATA] # Absent
    /\ store[VAULT_DATA].v.data.pt = JSONstringify(vaultData)
    /\ store[VAULT_DATA].v.salt # store[MASTER_PASSWORD_VALIDATION].v.salt

\* C21: shuffleString makes swaps with 0 <= j <= i only, and its result
\* has the length of the input and every character as often as the input.
C21_ShuffleIsPermutation ==
    shuffleResult # None =>
        /\ \A k \in DOMAIN shuffleResult.swaps :
              /\ 0 <= shuffleResult.swaps[k].j
              /\ shuffleResult.swaps[k].j <= shuffleResult.swaps[k].i
        /\ Len(shuffleResult.out) = Len(shuffleInput)
        /\ \A c \in CharsOf(shuffleInput) \cup CharsOf(shuffleResult.out) :
              CountIn(shuffleResult.out, {c}) = CountIn(shuffleInput, {c})

C21_Witness ==
    /\ shuffleResult # None
    /\ shuffleInput = << "a", "a", "b", "1" >>
    /\ shuffleResult.out = << "1", "a", "b", "a" >>
    /\ \E k \in DOMAIN shuffleResult.swaps :
          shuffleResult.swaps[k].j = shuffleResult.swaps[k].i

\* The union of the alphabets of the enabled classes, each without the
\* characters its filter removes.
AllowedChars(options) ==
    (IF options.includeUppercase
     THEN CharsOf(UPPERCASE)
              \ (IF options.excludeSimilar THEN UpperSimilar ELSE {})
     ELSE {})
    \cup (IF options.includeLowercase
          THEN CharsOf(LOWERCASE)
                   \ (IF options.excludeSimilar THEN LowerSimilar ELSE {})
          ELSE {})
    \cup (IF options.includeNumbers
          THEN CharsOf(NUMBERS)
                   \ (IF options.excludeSimilar THEN NumberSimilar ELSE {})
          ELSE {})
    \cup (IF options.includeSpecialChars
          THEN CharsOf(SPECIAL_CHARS)
                   \ (IF options.excludeAmbiguous THEN SpecialAmbiguous
                      ELSE {})
          ELSE {})

C23_IVLength ==
    \A i \in DOMAIN produced :
        HexParseBytes(produced[i].iv) = AESBlockBytes

\* The logins of Next that must fail: the read of the validation envelope
\* fails or finds none, or the password does not validate against it.
LoginMustFail(password, readOk) ==
    LET validationData == getMasterPasswordValidation(Seen(store, readOk))
    IN  \/ validationData = NullEnvelope
        \/ Ok(TRUE) \notin validateMasterPassword(password, validationData)

\* C24: a login that fails returns false without throwing (the login
\* screen issues Login Failed, not Login Error), leaves the session
\* unauthenticated, puts no master password in memory and changes neither
\* the store nor the vault state.
C24_FailedLoginChangesNothing ==
    [][ \A p \in Passwords, readOk \in BOOLEAN :
            Login(p, readOk) /\ LoginMustFail(p, readOk)
                => /\ toasts' = << "Login Failed" >>
                   /\ ~isAuthenticated'
                   /\ masterPassword' = NoPassword
                   /\ UNCHANGED << store, hasVault, vaultData, pvLoading >>
      ]_vars

\* A login has failed over a stored vault.
C24_Witness ==
    /\ toasts = << "Login Failed" >>
    /\ hasVault
    /\ ~isAuthenticated
    /\ masterPassword = NoPassword
    /\ store[MASTER_PASSWORD_VALIDATION] # Absent
    /\ store[VAULT_DATA] # Absent

\* C26: the setup form is offered only while the store holds no validation
\* envelope.
C26_SetupOnlyWithoutVault ==
    ~isLoading /\ ~hasVault => store[MASTER_PASSWORD_VALIDATION] = Absent

\* C27: add, edit and delete, with any outcome of the save, leave a stored
\* vault as it is when the vault screen has neither loaded nor saved one.
C27_UnloadedVaultKept ==
    [][ ( /\ store[VAULT_DATA] # Absent
          /\ lastSaved = None
          /\ \/ \E d \in EntryInputs, ok \in BOOLEAN : AddEntry(d, ok)
             \/ \E i \in 1..MaxEntries, d \in EntryInputs, ok \in BOOLEAN :
                   EditEntry(i, d, ok)
             \/ \E i \in 1..MaxEntries, ok \in BOOLEAN : DeleteEntry(i, ok) )
            => store'[VAULT_DATA] = store[VAULT_DATA]
      ]_vars

\* C28: when the store holds both envelopes, they are encrypted under keys
\* of the same master password.
C28_SameMasterPassword ==
    /\ store[MASTER_PASSWORD_VALIDATION] # Absent
    /\ store[VAULT_DATA] # Absent
    => store[MASTER_PASSWORD_VALIDATION].v.data.key.pw
           = store[VAULT_DATA].v.data.key.pw

\* C29: the vault in memory is the vault the screen last loaded or saved
\* with success, or the empty default when there is none: a save that
\* fails leaves it as it was.
C29_MemoryIsLastSaved ==
    vaultData = IF lastSaved = None THEN EmptyVault ELSE lastSaved

\* A save has just failed on a vault that holds an entry.
C29_Witness ==
    /\ VaultShown
    /\ toasts # << >>
    /\ toasts[1] = "Save Error"
    /\ lastSaved # None
    /\ Len(lastSaved.entries) >= 1
    /\ store[VAULT_DATA].v.data.pt = JSONstringify(vaultData)

SuccessTitles == { "Password Added", "Password Updated", "Password Deleted" }

\* C30: a handler that issued Password Added, Password Updated or Password
\* Deleted issued no Save Error, and the stored vault is the vault in
\* memory.
C30_SuccessAfterPersist ==
    \A k \in DOMAIN toasts :
        toasts[k] \in SuccessTitles
            => /\ toasts = << toasts[k] >>
               /\ store[VAULT_DATA] # Absent
               /\ store[VAULT_DATA].v.data.pt = JSONstringify(vaultData)

\* The ids of the entries whose delete has been saved.
DeletedIds == { m.id : m \in { x \in saved : x.op = "delete" } }

\* A vault shows a saved mutation: an added entry is there unless a saved
\* delete removed it, a deleted entry is not there, and an edited entry
\* that is there carries a time of update later than its creation.
Reflects(v, m) ==
    LET at == { j \in DOMAIN v.entries : v.entries[j].id = m.id }
    IN  IF m.op = "delete" THEN at = {}
        ELSE IF m.id \in DeletedIds THEN TRUE
        ELSE IF m.op = "add" THEN at # {}
        ELSE /\ at # {}
             /\ \A j \in at : v.entries[j].updatedAt # v.entries[j].createdAt

\* C25: once no save is in flight, the vault in memory shows every
\* mutation whose save succeeded, and the stored vault is that vault.
C25_NoLostUpdate ==
    /\ VaultShown
    /\ pending = << >>
    /\ saved # {}
    => /\ \A m \in saved : Reflects(vaultData, m)
       /\ store[VAULT_DATA].v.data.pt = JSONstringify(vaultData)

=============================================================================
